---- MODULE Spec2Model ----
(***************************************************************************)
(* The journey/step execution engine of the synthetics Runner              *)
(* (src/unnamed/part_000, class Runner).                                   *)
(*                                                                         *)
(* One engine instance is modelled: its fields (active, journeys,          *)
(* currentJourney), the events it emitted, the reporters attached to it,   *)
(* the drivers Gatherer handed out, and one frame per call of run().       *)
(* Every await of the source is a position (pc) of the frame; the outcome  *)
(* of each awaited collaborator (driver set-up, recording, hooks, step     *)
(* callback, metrics, screenshot, plugin output) is chosen by the          *)
(* environment: it resolves or it throws.  raised is the log of what was   *)
(* thrown, by whom, and hookRuns the log of the hook lists the engine ran. *)
(* Gatherer.dispose, pluginManager.onStep and driver.page.url are taken to *)
(* return normally, and pauseOnError to be unset.                          *)
(*                                                                         *)
(* The URL of a step is modelled apart (SpecUrl): capture is one call of   *)
(* runStep seen from the page, with the requests the page emits while the  *)
(* step runs and after it.                                                 *)
(***************************************************************************)
EXTENDS Integers, Sequences, FiniteSets, TLC

VARIABLES active, journeys, currentJourney, events, reporters, drivers, frame,
          raised, options, hookRuns, capture

vars == <<active, journeys, currentJourney, events, reporters, drivers, frame,
          raised, options, hookRuns, capture>>

----------------------------------------------------------------------------
(* Bounds of the model *)

\* journeys registered with addJourney
MaxJourneys == 2
\* steps a journey callback registers
MaxSteps == 2
\* calls of run() made on the instance
MaxCalls == 2
\* exceptions the collaborators and user callbacks throw in one behaviour
MaxFaults == 2

Calls == 1..MaxCalls

----------------------------------------------------------------------------
(* Values *)

\* JavaScript's undefined: an absent property reads as undefined too
Undefined == "undefined"

\* the value null (currentJourney's initial and reset value)
Null == "null"

\* `if (v)` : undefined is falsy, every Error object and non-empty string is truthy
Truthy(v) == v # Undefined

\* Values a user callback can throw or reject with.  "x" stands for an Error
\* object; Undefined for a falsy rejection such as `Promise.reject()`.
ThrowValues == {"x", Undefined}

\* The names of the journeys, in the order they are registered.  Each journey
\* has a name of its own; "2" and "1" are canonical array indices.
NameSeq == <<"a", "2", "1">>

NamePool == {NameSeq[i] : i \in 1..Len(NameSeq)}

\* The numeric value of a name that is a canonical array index, else -1
ArrayIndex(name) == CASE name = "1" -> 1 [] name = "2" -> 2 [] OTHER -> -1

IsArrayIndex(name) == ArrayIndex(name) >= 0

----------------------------------------------------------------------------
(* Records of the source *)

\* RunOptions: the options run() reads.  metrics and screenshots are read by
\* runStep only, which a dry run never reaches, so they are left unset there.
RunOptions ==
    { o \in [dryRun : BOOLEAN, journeyName : NamePool \cup {Undefined},
             metrics : BOOLEAN, screenshots : BOOLEAN] :
        o.dryRun => (~o.metrics /\ ~o.screenshots) }

\* type StepResult, as runStep and runSteps initialise it
NewStepResult ==
    [status |-> "succeeded", error |-> Undefined,
     metrics |-> Undefined, screenshot |-> Undefined]

\* type JourneyResult, as runJourney initialises it
NewJourneyResult == [status |-> "succeeded", error |-> Undefined]

\* type RunResult = Record<string, JourneyResult>: a plain object, modelled as
\* the sequence of its own properties in creation order.
EmptyObject == <<>>

\* result[k] = v on a plain object, for the names of NameSeq: assigning to an
\* existing key keeps the key's place; a new key is created last.
ObjSet(obj, k, v) ==
    IF \E i \in 1..Len(obj) : obj[i].key = k
    THEN [i \in 1..Len(obj) |->
            IF obj[i].key = k THEN [key |-> k, value |-> v] ELSE obj[i]]
    ELSE Append(obj, [key |-> k, value |-> v])

RECURSIVE Ascending(_)
\* the names of a set of array indices, in ascending numeric order
Ascending(S) ==
    IF S = {} THEN <<>>
    ELSE LET m == CHOOSE x \in S : \A y \in S : ArrayIndex(x) <= ArrayIndex(y)
         IN  <<m>> \o Ascending(S \ {m})

\* Object.keys(obj): array indices in ascending order, then the other string
\* keys in creation order.
OwnKeys(obj) ==
    LET keys == [i \in 1..Len(obj) |-> obj[i].key]
        NotIndex(k) == ~IsArrayIndex(k)
    IN  Ascending({keys[i] : i \in 1..Len(keys)} \cap {k \in NamePool : IsArrayIndex(k)})
        \o SelectSeq(keys, NotIndex)

\* The locals of one call of run(), and of the runJourney / runSteps / runStep
\* calls nested in it:
\*   pc        where the call stands: "idle" before it is made, then the await
\*             it is suspended at, and "refused" (returned by the guard),
\*             "done" (returned after the run) or "threw" (rejected)
\*   result    run's RunResult;  thrown: what the call rejected with
\*   list, idx the array `for (const journey of this.journeys)` iterates, and
\*             the place of the iteration in it
\*   executed  the journeys handed to runJourney, in order
\*   jresult, driver      runJourney's result and context.driver
\*   steps     journey.steps, as the journey callback registered them
\*   sidx, skipStep, results, data    runSteps' iteration, skipStep and
\*             results, and the data of runStep
NewFrame ==
    [pc |-> "idle", result |-> EmptyObject, thrown |-> Undefined,
     list |-> <<>>, idx |-> 1, executed |-> <<>>,
     jresult |-> NewJourneyResult, driver |-> 0,
     steps |-> 0, sidx |-> 1, skipStep |-> FALSE,
     data |-> NewStepResult, results |-> <<>>]

\* Bound of the URL capture: the requests the page emits around one step
MaxRequests == 3

\* A request the page emits: req.isNavigationRequest() and req.url()
Requests == [nav : BOOLEAN, url : {"u1", "u2"}]

\* What driver.page.url() can return when runStep reads it
PageUrls == {"about:blank", "u2"}

\* One call of runStep seen from the page (the URL capture):
\*   pc        "idle" before the call, "running" from the attachment of
\*             captureUrl to the finally block, "returned" after it
\*   url       data.url
\*   listening captureUrl is attached to the page's request stream
\*   requests  the requests the page emitted while the step ran
\*   later     the requests the page emitted after runStep returned
\*   pageUrl   what driver.page.url() returned in the finally block
NewCapture ==
    [pc |-> "idle", url |-> Undefined, listening |-> FALSE,
     requests |-> <<>>, later |-> <<>>, pageUrl |-> Undefined]

\* the journey a frame is executing: the loop variable of run()
JourneyOf(f) == f.list[f.idx]

----------------------------------------------------------------------------
(* The state after construction *)

\* addJourney(journey)
addJourney(list, name) == Append(list, name)

RECURSIVE Registered(_)
\* The journey list after n registrations: the journeys of NameSeq, in order.
Registered(n) == IF n = 0 THEN <<>> ELSE addJourney(Registered(n - 1), NameSeq[n])

Init ==
    /\ active = FALSE
    /\ \E n \in 0..MaxJourneys :
         /\ journeys = Registered(n)
         /\ currentJourney = IF n = 0 THEN Null ELSE journeys[n]
    /\ events = <<>>
    /\ reporters = 0
    /\ drivers = <<>>
    /\ frame = [c \in Calls |-> NewFrame]
    /\ raised = <<>>
    /\ options \in RunOptions
    /\ hookRuns = <<>>
    /\ capture = NewCapture

\* this.eventEmitter.emit(e, v)
emit(evs, e) == Append(evs, e)

\* runParallel(callbacks), for the hook list `hook` of the run or of journey
\* `journey`: the list is run, after the events emitted so far.
runParallel(hook, journey) ==
    Append(hookRuns, [hook |-> hook, journey |-> journey, at |-> Len(events)])

\* an awaited collaborator or user callback may throw while the budget lasts
MayThrow == Len(raised) < MaxFaults

\* `from` throws `error` while journey `journey` (and its step `step`) runs
Throw(from, journey, step, error) ==
    raised' = Append(raised, [from |-> from, journey |-> journey, step |-> step,
                              error |-> error])

NoThrow == UNCHANGED raised

SetFrame(c, f) == frame' = [frame EXCEPT ![c] = f]

\* Mutant of Escapes: run() swallows the exception and goes on to its afterAll
\* hooks
EscapesToAfterAll(f, e) == [f EXCEPT !.pc = "afterAll"]

\* run() has no handler: an exception that reaches it, from a hook of the run
\* or out of runJourney, rejects the call.
Escapes(f, e) == [f EXCEPT !.pc = "threw", !.thrown = e]

----------------------------------------------------------------------------
(* run(options) *)

\* Mutant of Rejects: the guard left out
RejectsNever == FALSE

\* the guard of run(): `if (this.active) return result`
Rejects == active

\* run(options), from the call to its first await.  Calls are numbered in the
\* order they are made, and every call passes the options of the invocation.
run(c) ==
    LET f == frame[c] IN
    /\ f.pc = "idle"
    /\ \A d \in Calls : d < c => frame[d].pc # "idle"
    /\ IF Rejects
       THEN /\ SetFrame(c, [f EXCEPT !.pc = "refused", !.result = EmptyObject])
            /\ UNCHANGED <<active, events, reporters>>
       ELSE \* new Reporter(this, { fd: outfd }); this.emit('start', ...)
            /\ active' = TRUE
            /\ reporters' = reporters + 1
            /\ events' = emit(events, [type |-> "start", numJourneys |-> Len(journeys)])
            /\ SetFrame(c, [f EXCEPT !.pc = "beforeAll", !.result = EmptyObject])
    /\ UNCHANGED <<journeys, currentJourney, drivers, raised, options, hookRuns, capture>>

\* await this.runBeforeAllHook()
runBeforeAllHook(c) ==
    LET f == frame[c] IN
    /\ f.pc = "beforeAll"
    /\ hookRuns' = runParallel("beforeAll", Undefined)
    /\ \/ /\ NoThrow
          /\ SetFrame(c, [f EXCEPT !.pc = "loop", !.list = journeys, !.idx = 1])
       \/ /\ MayThrow /\ Throw("beforeAll", Undefined, 0, "beforeAll hook error")
          /\ SetFrame(c, Escapes(f, "beforeAll hook error"))
    /\ UNCHANGED <<active, journeys, currentJourney, events, reporters, drivers, options, capture>>

\* Mutant of Filtered: `==` written for `!=`
FilteredInverted(name) == Truthy(options.journeyName) /\ name = options.journeyName

\* `journeyName && journey.name != journeyName`
Filtered(name) == Truthy(options.journeyName) /\ name # options.journeyName

\* Mutant of LoopCase: the name filter tested before the dry-run flag
LoopCaseFilterFirst(name) ==
    IF Filtered(name) THEN "continue"
    ELSE IF options.dryRun THEN "register"
    ELSE "runJourney"

\* What the body of the loop of run() does with a journey: the dry-run test
\* comes first, the name filter second.
LoopCase(name) ==
    IF options.dryRun THEN "register"
    ELSE IF Filtered(name) THEN "continue"
    ELSE "runJourney"

\* One iteration of `for (const journey of this.journeys)`, up to the call of
\* runJourney, and the exit of the loop.
runLoop(c) ==
    LET f == frame[c] IN
    /\ f.pc = "loop"
    /\ IF f.idx > Len(f.list)
       THEN /\ SetFrame(c, [f EXCEPT !.pc = "afterAll"])
            /\ UNCHANGED events
       ELSE IF LoopCase(JourneyOf(f)) = "register"
       THEN /\ events' = emit(events, [type |-> "journey:register", journey |-> JourneyOf(f)])
            /\ SetFrame(c, [f EXCEPT !.idx = @ + 1])
       ELSE IF LoopCase(JourneyOf(f)) = "continue"
       THEN /\ SetFrame(c, [f EXCEPT !.idx = @ + 1])
            /\ UNCHANGED events
       ELSE \* runJourney starts: its result, then `await Runner.createContext`
            /\ SetFrame(c, [f EXCEPT !.pc = "createContext",
                                     !.executed = Append(@, JourneyOf(f)),
                                     !.jresult = NewJourneyResult])
            /\ UNCHANGED events
    /\ UNCHANGED <<active, journeys, currentJourney, reporters, drivers, raised, options, hookRuns, capture>>

\* Mutant of reset: the active flag left set
resetKeepsActive == [currentJourney |-> Null, journeys |-> <<>>, active |-> TRUE]

\* reset(): the fields it assigns
reset == [currentJourney |-> Null, journeys |-> <<>>, active |-> FALSE]

\* await this.runAfterAllHook(); this.reset(); this.emit('end', {}); return
\* result.
runAfterAllHook(c) ==
    LET f == frame[c] IN
    /\ f.pc = "afterAll"
    /\ hookRuns' = runParallel("afterAll", Undefined)
    /\ \/ /\ NoThrow
          /\ currentJourney' = reset.currentJourney
          /\ journeys' = reset.journeys
          /\ active' = reset.active
          /\ events' = emit(events, [type |-> "end"])
          /\ SetFrame(c, [f EXCEPT !.pc = "done"])
       \/ /\ MayThrow /\ Throw("afterAll", Undefined, 0, "afterAll hook error")
          /\ SetFrame(c, Escapes(f, "afterAll hook error"))
          /\ UNCHANGED <<active, journeys, currentJourney, events>>
    /\ UNCHANGED <<reporters, drivers, options, capture>>

----------------------------------------------------------------------------
(* runJourney(journey, options) *)

\* Mutant of Caught: the after hooks run after the catch block, as in a
\* finally block
CaughtThenAfterHook(f, e) ==
    [f EXCEPT !.jresult = [status |-> "failed", error |-> e],
              !.pc = IF f.pc = "after" THEN "output" ELSE "after"]

\* Mutant of Caught: no catch block, the exception leaves runJourney
CaughtNowhere(f, e) == Escapes(f, e)

\* The catch block of runJourney, then the await of endJourney's
\* pluginManager.output() in its finally block.
Caught(f, e) ==
    [f EXCEPT !.jresult = [status |-> "failed", error |-> e], !.pc = "output"]

\* const context = await Runner.createContext(options): Gatherer.setupDriver,
\* then Gatherer.beginRecording on the driver it returned.  The call stands
\* before the try block of runJourney.
createContext(c) ==
    LET f == frame[c]
        driver == Len(drivers) + 1
        acquired == Append(drivers, [journey |-> JourneyOf(f), disposed |-> 0])
    IN
    /\ f.pc = "createContext"
    /\ \/ /\ NoThrow
          /\ drivers' = acquired
          /\ SetFrame(c, [f EXCEPT !.pc = "register", !.driver = driver])
       \/ /\ MayThrow /\ Throw("setupDriver", JourneyOf(f), 0, "setupDriver error")
          /\ UNCHANGED drivers
          /\ SetFrame(c, Escapes(f, "setupDriver error"))
       \/ /\ MayThrow /\ Throw("beginRecording", JourneyOf(f), 0, "beginRecording error")
          /\ drivers' = acquired
          /\ SetFrame(c, Escapes([f EXCEPT !.driver = driver], "beginRecording error"))
    /\ UNCHANGED <<active, journeys, currentJourney, events, reporters, options, hookRuns, capture>>

\* registerJourney(journey, context): journey:start, then the journey callback
\* registers the journey's steps, and may throw after registering them.
registerJourney(c) ==
    LET f == frame[c] IN
    /\ f.pc = "register"
    /\ currentJourney' = JourneyOf(f)
    /\ events' = emit(events, [type |-> "journey:start", journey |-> JourneyOf(f)])
    /\ \E n \in 0..MaxSteps :
         \/ /\ NoThrow
            /\ SetFrame(c, [f EXCEPT !.steps = n, !.pc = "before"])
         \/ /\ MayThrow /\ Throw("callback", JourneyOf(f), 0, "journey callback error")
            /\ SetFrame(c, Caught([f EXCEPT !.steps = n], "journey callback error"))
    /\ UNCHANGED <<active, journeys, reporters, drivers, options, hookRuns, capture>>

\* await this.runBeforeHook(journey), then the entry of runSteps
runBeforeHook(c) ==
    LET f == frame[c] IN
    /\ f.pc = "before"
    /\ hookRuns' = runParallel("before", JourneyOf(f))
    /\ \/ /\ NoThrow
          /\ SetFrame(c, [f EXCEPT !.pc = "steps", !.sidx = 1, !.skipStep = FALSE,
                                   !.results = <<>>])
       \/ /\ MayThrow /\ Throw("before", JourneyOf(f), 0, "before hook error")
          /\ SetFrame(c, Caught(f, "before hook error"))
    /\ UNCHANGED <<active, journeys, currentJourney, events, reporters, drivers, options, capture>>

RECURSIVE JourneyStatus(_, _)
\* `for (const stepResult of stepResults) if (stepResult.status === 'failed')
\*  { result.status = stepResult.status; result.error = stepResult.error }`
JourneyStatus(result, stepResults) ==
    IF stepResults = <<>> THEN result
    ELSE JourneyStatus(
           IF Head(stepResults).status = "failed"
           THEN [status |-> Head(stepResults).status, error |-> Head(stepResults).error]
           ELSE result,
           Tail(stepResults))

\* the payload of step:end: { journey, step, start, end, ...data }
StepEnd(journey, step, data) ==
    [type |-> "step:end", journey |-> journey, step |-> step,
     status |-> data.status, error |-> data.error]

\* `if (data.error) skipStep = true`
SkipNext(skipStep, data) == skipStep \/ Truthy(data.error)

\* runSteps after runStep returned data: the skip flag, step:end, results.push
Returned(f, data) ==
    [f EXCEPT !.skipStep = SkipNext(@, data),
              !.results = Append(@, data),
              !.data = NewStepResult,
              !.sidx = @ + 1,
              !.pc = "steps"]

\* One iteration of `for (const step of journey.steps)` up to the await in
\* runStep, and the exit of the loop: the journey's status, then the await of
\* runAfterHook.
runSteps(c) ==
    LET f == frame[c]
        skipped == [NewStepResult EXCEPT !.status = "skipped"]
        start == emit(events, [type |-> "step:start", journey |-> JourneyOf(f),
                               step |-> f.sidx])
    IN
    /\ f.pc = "steps"
    /\ IF f.sidx > f.steps
       THEN /\ SetFrame(c, [f EXCEPT !.jresult = JourneyStatus(@, f.results),
                                     !.pc = "after"])
            /\ UNCHANGED events
       ELSE IF f.skipStep
       THEN /\ events' = emit(start, StepEnd(JourneyOf(f), f.sidx, skipped))
            /\ SetFrame(c, [f EXCEPT !.results = Append(@, skipped), !.sidx = @ + 1])
       ELSE \* runStep: data, captureUrl, pluginManager.onStep, then
            \* `await step.callback()`
            /\ events' = start
            /\ SetFrame(c, [f EXCEPT !.data = NewStepResult, !.pc = "callback"])
    /\ UNCHANGED <<active, journeys, currentJourney, reporters, drivers, raised, options, hookRuns, capture>>

----------------------------------------------------------------------------
(* runStep(step, context, options) *)

\* The catch block of runStep
Failed(data, error) == [data EXCEPT !.status = "failed", !.error = error]

\* The finally block of runStep up to its first await: with screenshots it
\* awaits driver.page.waitForLoadState and driver.page.screenshot; without,
\* runStep returns data to runSteps, which emits step:end.
Finally(c, f, data) ==
    IF options.screenshots
    THEN /\ SetFrame(c, [f EXCEPT !.data = data, !.pc = "screenshot"])
         /\ UNCHANGED events
    ELSE /\ events' = emit(events, StepEnd(JourneyOf(f), f.sidx, data))
         /\ SetFrame(c, Returned(f, data))

\* await step.callback(): it resolves, or it throws any value
callback(c) ==
    LET f == frame[c] IN
    /\ f.pc = "callback"
    /\ \/ /\ NoThrow
          /\ IF options.metrics
             THEN /\ SetFrame(c, [f EXCEPT !.pc = "metrics"])
                  /\ UNCHANGED events
             ELSE Finally(c, f, f.data)
       \/ /\ MayThrow
          /\ \E v \in ThrowValues :
               /\ Throw("step", JourneyOf(f), f.sidx, v)
               /\ Finally(c, f, Failed(f.data, v))
    /\ UNCHANGED <<active, journeys, currentJourney, reporters, drivers, options, hookRuns, capture>>

\* data.metrics = await pluginManager.get(PerformanceManager).getMetrics()
getMetrics(c) ==
    LET f == frame[c] IN
    /\ f.pc = "metrics"
    /\ \/ /\ NoThrow
          /\ Finally(c, f, [f.data EXCEPT !.metrics = "metrics"])
       \/ /\ MayThrow /\ Throw("getMetrics", JourneyOf(f), f.sidx, "getMetrics error")
          /\ Finally(c, f, Failed(f.data, "getMetrics error"))
    /\ UNCHANGED <<active, journeys, currentJourney, reporters, drivers, options, hookRuns, capture>>

\* The awaits of the finally block of runStep: they stand outside its try, so
\* what they throw leaves runStep and runSteps and reaches the catch block of
\* runJourney.
screenshot(c) ==
    LET f == frame[c] IN
    /\ f.pc = "screenshot"
    /\ \/ /\ NoThrow
          /\ LET data == [f.data EXCEPT !.screenshot = "jpeg"] IN
             /\ events' = emit(events, StepEnd(JourneyOf(f), f.sidx, data))
             /\ SetFrame(c, Returned(f, data))
       \/ /\ MayThrow /\ Throw("screenshot", JourneyOf(f), f.sidx, "screenshot error")
          /\ UNCHANGED events
          /\ SetFrame(c, Caught([f EXCEPT !.data = NewStepResult, !.results = <<>>],
                                "screenshot error"))
    /\ UNCHANGED <<active, journeys, currentJourney, reporters, drivers, options, hookRuns, capture>>

----------------------------------------------------------------------------
(* The end of runJourney *)

\* await this.runAfterHook(journey)
runAfterHook(c) ==
    LET f == frame[c] IN
    /\ f.pc = "after"
    /\ hookRuns' = runParallel("after", JourneyOf(f))
    /\ \/ /\ NoThrow
          /\ SetFrame(c, [f EXCEPT !.pc = "output"])
       \/ /\ MayThrow /\ Throw("after", JourneyOf(f), 0, "after hook error")
          /\ SetFrame(c, Caught(f, "after hook error"))
    /\ UNCHANGED <<active, journeys, currentJourney, events, reporters, drivers, options, capture>>

\* await this.endJourney(journey, { ...context, ...result }), the first
\* statement of the finally block: pluginManager.output(), then journey:end.
endJourney(c) ==
    LET f == frame[c] IN
    /\ f.pc = "output"
    /\ \/ /\ NoThrow
          /\ events' = emit(events, [type |-> "journey:end", journey |-> JourneyOf(f),
                                     status |-> f.jresult.status,
                                     error |-> f.jresult.error])
          /\ SetFrame(c, [f EXCEPT !.pc = "dispose"])
       \/ /\ MayThrow /\ Throw("output", JourneyOf(f), 0, "output error")
          /\ UNCHANGED events
          /\ SetFrame(c, Escapes(f, "output error"))
    /\ UNCHANGED <<active, journeys, currentJourney, reporters, drivers, options, hookRuns, capture>>

\* await Gatherer.dispose(context.driver); return result; and in run():
\* result[journey.name] = journeyResult
dispose(c) ==
    LET f == frame[c] IN
    /\ f.pc = "dispose"
    /\ drivers' = [drivers EXCEPT ![f.driver].disposed = @ + 1]
    /\ SetFrame(c, [f EXCEPT !.result = ObjSet(@, JourneyOf(f), f.jresult),
                             !.idx = @ + 1,
                             !.jresult = NewJourneyResult,
                             !.driver = 0, !.steps = 0, !.sidx = 1,
                             !.skipStep = FALSE, !.results = <<>>,
                             !.pc = "loop"])
    /\ UNCHANGED <<active, journeys, currentJourney, events, reporters, raised, options, hookRuns, capture>>

----------------------------------------------------------------------------

Next ==
    \/ \E c \in Calls : run(c)
    \/ \E c \in Calls : runBeforeAllHook(c)
    \/ \E c \in Calls : runLoop(c)
    \/ \E c \in Calls : createContext(c)
    \/ \E c \in Calls : registerJourney(c)
    \/ \E c \in Calls : runBeforeHook(c)
    \/ \E c \in Calls : runSteps(c)
    \/ \E c \in Calls : callback(c)
    \/ \E c \in Calls : getMetrics(c)
    \/ \E c \in Calls : screenshot(c)
    \/ \E c \in Calls : runAfterHook(c)
    \/ \E c \in Calls : endJourney(c)
    \/ \E c \in Calls : dispose(c)
    \/ \E c \in Calls : runAfterAllHook(c)

Spec == Init /\ [][Next]_vars

----------------------------------------------------------------------------
(* The URL of a step: runStep seen from the page *)

\* the variables of the engine, which the URL capture leaves alone
engine == <<active, journeys, currentJourney, events, reporters, drivers, frame,
            raised, options, hookRuns>>

\* runStep up to its try block: `const data = { status: 'succeeded' }` and
\* driver.page.on('request', captureUrl)
attachCaptureUrl ==
    /\ capture.pc = "idle"
    /\ capture' = [capture EXCEPT !.pc = "running", !.url = Undefined,
                                  !.listening = TRUE]
    /\ UNCHANGED engine

\* captureUrl(req): `if (!data.url && req.isNavigationRequest()) data.url =
\* req.url()`, then driver.page.off('request', captureUrl)
captureUrl(cap, req) ==
    [cap EXCEPT !.url = IF ~Truthy(@) /\ req.nav THEN req.url ELSE @,
                !.listening = FALSE]

\* The page emits a request, while the step runs or after runStep returned:
\* the listeners attached to 'request' are called with it.
request ==
    /\ capture.pc \in {"running", "returned"}
    /\ Len(capture.requests) + Len(capture.later) < MaxRequests
    /\ \E req \in Requests :
         LET seen == IF capture.pc = "running"
                     THEN [capture EXCEPT !.requests = Append(@, req)]
                     ELSE [capture EXCEPT !.later = Append(@, req)]
         IN  capture' = IF capture.listening THEN captureUrl(seen, req) ELSE seen
    /\ UNCHANGED engine

\* The finally block of runStep: `data.url ??= driver.page.url()`
fallbackUrl ==
    /\ capture.pc = "running"
    /\ \E u \in PageUrls :
         capture' = [capture EXCEPT !.pc = "returned", !.pageUrl = u,
                                   !.url = IF @ = Undefined THEN u ELSE @]
    /\ UNCHANGED engine

NextUrl ==
    \/ attachCaptureUrl
    \/ request
    \/ fallbackUrl

\* The URL capture of one step, in an engine that stands as constructed
SpecUrl == Init /\ [][NextUrl]_vars

----------------------------------------------------------------------------
(* What the claims speak of *)

\* the call is in flight: made, and neither returned nor rejected
InFlight(c) == frame[c].pc \notin {"idle", "refused", "done", "threw"}

\* the call is inside runJourney
InJourney(c) ==
    frame[c].pc \in {"createContext", "register", "before", "steps", "callback",
                     "metrics", "screenshot", "after", "output", "dispose"}

\* runSteps returned its results to runJourney
StepsReturned(c) ==
    /\ frame[c].pc \in {"after", "output", "dispose"}
    /\ \A i \in 1..Len(raised) :
         raised[i].journey = JourneyOf(frame[c]) =>
           raised[i].from \notin {"callback", "before", "screenshot"}

\* the events of the given types that carry journey j
EventsOf(types, j) ==
    LET Is(e) == e.type \in types /\ e.journey = j
    IN  SelectSeq(events, Is)

JourneyStages == {"setupDriver", "beginRecording", "callback", "before", "after"}

StepStages == {"step", "getMetrics", "screenshot"}

----------------------------------------------------------------------------
(* C1 *)

\* C1: when runSteps has returned and step k is the first step with status
\* failed, the steps before k have status succeeded, the steps after k have
\* status skipped and the journey's status is failed, whatever value the
\* callback of step k threw.
C1_FirstFailureSkipsTheRest ==
    \A c \in Calls :
      StepsReturned(c) =>
        LET r == frame[c].results IN
        /\ Len(r) = frame[c].steps
        /\ \A k \in 1..Len(r) :
             (r[k].status = "failed" /\ \A i \in 1..(k - 1) : r[i].status # "failed") =>
               /\ \A i \in 1..(k - 1) : r[i].status = "succeeded"
               /\ \A i \in (k + 1)..Len(r) : r[i].status = "skipped"
               /\ frame[c].jresult.status = "failed"

----------------------------------------------------------------------------
(* C2 *)

\* C2: a driver is never disposed twice, and once the runJourney call that
\* acquired it is over, by returning or by throwing, at whatever stage, it
\* has been disposed exactly once.
C2_DriverDisposedExactlyOnce ==
    \A d \in 1..Len(drivers) :
      /\ drivers[d].disposed <= 1
      /\ (\A c \in Calls : ~(InJourney(c) /\ frame[c].driver = d)) =>
           drivers[d].disposed = 1

----------------------------------------------------------------------------
(* C3 *)

\* C3: an exception raised by context creation, the registration callback, a
\* before hook or an after hook of a journey never rejects run; runJourney
\* returns status failed with that exception as its error; and when run is
\* done that result stands under the journey's name and every journey the
\* loop selects has been executed to its journey:end.
C3_JourneyFailureRecovered ==
    \A i \in 1..Len(raised) :
      raised[i].from \in JourneyStages =>
        LET failed == [status |-> "failed", error |-> raised[i].error] IN
        \A c \in Calls :
          /\ frame[c].pc = "threw" => frame[c].thrown # raised[i].error
          /\ (frame[c].pc = "dispose" /\ JourneyOf(frame[c]) = raised[i].journey) =>
               frame[c].jresult = failed
          /\ (frame[c].pc = "done" /\ Len(frame[c].list) > 0) =>
               /\ \E k \in 1..Len(frame[c].result) :
                    /\ frame[c].result[k].key = raised[i].journey
                    /\ frame[c].result[k].value = failed
               /\ \A n \in 1..Len(frame[c].list) :
                    LoopCase(frame[c].list[n]) = "runJourney" =>
                      Len(EventsOf({"journey:end"}, frame[c].list[n])) = 1

----------------------------------------------------------------------------
(* C4 *)

\* C4: an exception raised while a step runs, by the step callback, by metrics
\* retrieval or by the load-state wait / screenshot capture, stays inside
\* runStep: no catch block of runJourney and no caller of run receives it, and
\* once runStep is over the step has a step:end with status failed and the
\* exception as its error.
C4_StepFailureAbsorbed ==
    \A i \in 1..Len(raised) :
      raised[i].from \in StepStages =>
        LET j == raised[i].journey
            s == raised[i].step
            inStep(c) == /\ frame[c].pc \in {"metrics", "screenshot"}
                         /\ JourneyOf(frame[c]) = j
                         /\ frame[c].sidx = s
            ends == EventsOf({"step:end"}, j)
        IN
        \/ \E c \in Calls : inStep(c)
        \/ \E k \in 1..Len(ends) :
             /\ ends[k].step = s
             /\ ends[k].status = "failed"
             /\ \E h \in 1..Len(raised) :
                  /\ raised[h].journey = j /\ raised[h].step = s
                  /\ raised[h].from \in StepStages
                  /\ ends[k].error = raised[h].error

----------------------------------------------------------------------------
(* C5 *)

\* an event without its payload: its type, its journey and its step
Shape(e) ==
    IF e.type \in {"step:start", "step:end"} THEN <<e.type, e.journey, e.step>>
    ELSE IF e.type \in {"journey:start", "journey:end", "journey:register"}
    THEN <<e.type, e.journey, 0>>
    ELSE <<e.type, Undefined, 0>>

\* journey:start, a step:start and its step:end for each of n steps in order,
\* journey:end
JourneySequence(j, n) ==
    [i \in 1..(2 * n + 2) |->
       IF i = 1 THEN <<"journey:start", j, 0>>
       ELSE IF i = 2 * n + 2 THEN <<"journey:end", j, 0>>
       ELSE IF i % 2 = 0 THEN <<"step:start", j, i \div 2>>
       ELSE <<"step:end", j, (i - 1) \div 2>>]

\* C5: when a journey that reached its step loop (its registration and its
\* before hooks did not throw) has emitted journey:end, the events from its
\* journey:start on are exactly journey:start, then for each registered step
\* in order step:start followed by the step:end of that step, then
\* journey:end, with no other event between them.
C5_JourneyEventSequence ==
    \A c \in Calls :
      LET f == frame[c]
          j == JourneyOf(f)
          first == CHOOSE p \in 1..Len(events) :
                     events[p].type = "journey:start" /\ events[p].journey = j
      IN
      (/\ f.pc = "dispose"
       /\ \A i \in 1..Len(raised) :
            raised[i].journey = j => raised[i].from \notin {"callback", "before"}) =>
        [k \in 1..(Len(events) - first + 1) |-> Shape(events[first + k - 1])]
          = JourneySequence(j, f.steps)

----------------------------------------------------------------------------
(* C6 *)

\* C6: a call of run made while another call is in flight returns the empty
\* RunResult at once and changes nothing else: no event, no reporter, no
\* hook, no journey, and active, journeys and currentJourney keep their
\* values; so at most one call is in flight at any time.
C6_ReentrantRunRefused ==
    [][ /\ \A c \in Calls :
             (/\ frame[c].pc = "idle" /\ frame'[c].pc # "idle"
              /\ \E d \in Calls : InFlight(d)) =>
               /\ frame'[c].pc = "refused"
               /\ frame'[c].result = EmptyObject
               /\ \A d \in Calls \ {c} : frame'[d] = frame[d]
               /\ UNCHANGED <<active, journeys, currentJourney, events,
                              reporters, drivers, raised, hookRuns>>
        /\ Cardinality({c \in Calls : InFlight(c)'}) <= 1 ]_vars

\* a call was refused while another call awaits a step callback
C6_Witness ==
    \E c, d \in Calls : frame[c].pc = "refused" /\ frame[d].pc = "callback"

----------------------------------------------------------------------------
(* C7 *)

\* C7: when runJourney returns, its status is failed if and only if one of
\* the journey's steps has status failed or context set-up, the registration
\* callback or a before/after hook threw; otherwise it is succeeded; and the
\* journey:end just emitted carries the same status.
C7_JourneyStatus ==
    \A c \in Calls :
      frame[c].pc = "dispose" =>
        LET f == frame[c]
            j == JourneyOf(f)
            ends == EventsOf({"step:end"}, j)
        IN
        /\ f.jresult.status \in {"succeeded", "failed"}
        /\ f.jresult.status = "failed" <=>
             \/ \E k \in 1..Len(ends) : ends[k].status = "failed"
             \/ \E i \in 1..Len(raised) :
                  raised[i].journey = j /\ raised[i].from \in JourneyStages
        /\ events[Len(events)].type = "journey:end"
        /\ events[Len(events)].journey = j
        /\ events[Len(events)].status = f.jresult.status

----------------------------------------------------------------------------
(* C8 *)

\* the journeys of a list that a run executes: none in a dry run, those named
\* journeyName when it is set, all of them otherwise
Selected(list) ==
    LET Named(name) == name = options.journeyName IN
    IF options.dryRun THEN <<>>
    ELSE IF options.journeyName # Undefined THEN SelectSeq(list, Named)
    ELSE list

\* the elements of a sequence
Range(seq) == {seq[i] : i \in 1..Len(seq)}

----------------------------------------------------------------------------
(* C9 *)

\* the journeys of the journey:register events, in the order emitted
RegisterEvents ==
    LET Is(e) == e.type = "journey:register"
        regs == SelectSeq(events, Is)
    IN  [i \in 1..Len(regs) |-> regs[i].journey]

\* C9: with dryRun set, whatever journeyName is, no journey:start,
\* journey:end, step:start or step:end is ever emitted, no driver is acquired,
\* no journey is registered twice, and when the run over the registered
\* journeys returns it has emitted one journey:register per registered journey
\* in registration order and its RunResult is empty.
C9_DryRunOnlyRegisters ==
    options.dryRun =>
      /\ \A i \in 1..Len(events) :
           events[i].type \in {"start", "journey:register", "end"}
      /\ drivers = <<>>
      /\ \A p, q \in 1..Len(RegisterEvents) :
           p # q => RegisterEvents[p] # RegisterEvents[q]
      /\ \A c \in Calls :
           /\ frame[c].result = EmptyObject
           /\ (frame[c].pc = "done" /\ frame[c].list # <<>>) =>
                RegisterEvents = frame[c].list

\* a dry run with journeyName set returned after registering two journeys
C9_Witness ==
    /\ options.dryRun
    /\ options.journeyName = "a"
    /\ \E c \in Calls : frame[c].pc = "done" /\ Len(frame[c].list) = 2
    /\ Len(RegisterEvents) = 2

----------------------------------------------------------------------------
(* C10 *)

\* C10: in every journey a step has status skipped if and only if an earlier
\* step of the journey has status failed, and runStep is not entered for a
\* step once an earlier step of the journey has status failed.
C10_SkippedIffEarlierFailed ==
    \A c \in Calls :
      InJourney(c) =>
        LET ends == EventsOf({"step:end"}, JourneyOf(frame[c]))
            failedBefore(k) == \E i \in 1..(k - 1) : ends[i].status = "failed"
        IN
        /\ \A k \in 1..Len(ends) : ends[k].status = "skipped" <=> failedBefore(k)
        /\ frame[c].pc \in {"callback", "metrics", "screenshot"} =>
             ~failedBefore(Len(ends) + 1)

----------------------------------------------------------------------------
(* C11 *)

\* the JourneyResult a RunResult holds under key k, as a set (empty: no key)
ResultsOf(result, k) ==
    {result[i].value : i \in {n \in 1..Len(result) : result[n].key = k}}

\* the call passed the guard of run()
Passed(c) == frame[c].pc \notin {"idle", "refused"}

\* the call is the last one that passed the guard
Latest(c) == Passed(c) /\ \A d \in Calls : d > c => ~Passed(d)

\* the place in events of the last start event: the start of the latest run
StartAt ==
    LET S == {p \in 1..Len(events) : events[p].type = "start"}
    IN  IF S = {} THEN 0 ELSE CHOOSE p \in S : \A q \in S : q <= p

\* the runs of the hook list `hook` in the latest run
HookRunsOf(hook) ==
    LET Is(h) == h.hook = hook /\ h.at >= StartAt
    IN  SelectSeq(hookRuns, Is)

\* C11: no failure of a journey aborts the run: run is rejected only with
\* the error of a beforeAll or afterAll hook, never with what a stage of a
\* journey threw; the afterAll hooks are run only after every journey the
\* options select was executed to its journey:end, and once; and when run
\* returns, end was emitted and the RunResult holds the status, succeeded or
\* failed, of every journey executed.
C11_FailingJourneyNeverAbortsRun ==
    \A c \in Calls :
      LET f == frame[c] IN
      /\ f.pc = "threw" => f.thrown \in {"beforeAll hook error", "afterAll hook error"}
      /\ (f.thrown = "afterAll hook error" \/ f.pc \in {"afterAll", "done"}) =>
           /\ f.executed = Selected(f.list)
           /\ \A n \in 1..Len(f.executed) :
                /\ Len(EventsOf({"journey:end"}, f.executed[n])) = 1
                /\ \E r \in ResultsOf(f.result, f.executed[n]) :
                     r.status \in {"succeeded", "failed"}
      /\ (f.pc = "done" /\ Latest(c)) =>
           /\ Len(HookRunsOf("afterAll")) = 1
           /\ events[Len(events)].type = "end"

----------------------------------------------------------------------------
(* C12 *)

\* a result reports an error exactly when its status is failed
ErrorIffFailed(r) == (r.status = "failed") <=> Truthy(r.error)

\* C12: every step:end payload, every journey:end payload and every
\* JourneyResult of a RunResult carries an error if and only if its status
\* is failed.
C12_ErrorIffFailed ==
    /\ \A i \in 1..Len(events) :
         events[i].type \in {"step:end", "journey:end"} => ErrorIffFailed(events[i])
    /\ \A c \in Calls : \A k \in 1..Len(frame[c].result) :
         ErrorIffFailed(frame[c].result[k].value)

----------------------------------------------------------------------------
(* C13 *)

\* C13: a journey handed to runJourney never has two journey:end events; once
\* its runJourney call is over, by returning or by throwing at whatever
\* stage, it has exactly one; and its driver is disposed only after its
\* journey:end was emitted.
C13_JourneyAlwaysEnds ==
    /\ \A c \in Calls : \A n \in 1..Len(frame[c].executed) :
         LET j == frame[c].executed[n]
             ends == Len(EventsOf({"journey:end"}, j))
             running == InJourney(c) /\ JourneyOf(frame[c]) = j
         IN
         /\ ends <= 1
         /\ ~running => ends = 1
         /\ (running /\ frame[c].pc = "dispose") => ends = 1
    /\ \A d \in 1..Len(drivers) :
         drivers[d].disposed > 0 =>
           Len(EventsOf({"journey:end"}, drivers[d].journey)) = 1

----------------------------------------------------------------------------
(* C14 *)

\* the runs of the after hooks of journey j
AfterHookRuns(j) ==
    LET Is(h) == h.hook = "after" /\ h.journey = j
    IN  Len(SelectSeq(hookRuns, Is))

\* what the stages `from` threw while journey j ran
RaisedBy(from, j) ==
    LET Is(r) == r.from \in from /\ r.journey = j
    IN  SelectSeq(raised, Is)

\* C14: the after hooks of a journey never run twice, and before runSteps
\* returned they have not run; when the journey ends, they have run exactly
\* once if registration, the before hooks and the step loop did not throw,
\* whatever the statuses of the steps; if registration or a before hook
\* threw they have not run and the journey is failed with the thrown error.
C14_AfterHooksRunOnce ==
    \A c \in Calls :
      InJourney(c) =>
        LET f == frame[c]
            j == JourneyOf(f)
            early == RaisedBy({"callback", "before"}, j)
        IN
        /\ AfterHookRuns(j) <= 1
        /\ f.pc \in {"createContext", "register", "before", "steps", "callback",
                      "metrics", "screenshot", "after"} => AfterHookRuns(j) = 0
        /\ f.pc \in {"output", "dispose"} =>
             /\ (early = <<>> /\ RaisedBy({"screenshot"}, j) = <<>>) =>
                  AfterHookRuns(j) = 1
             /\ early # <<>> =>
                  /\ AfterHookRuns(j) = 0
                  /\ f.jresult = [status |-> "failed", error |-> early[1].error]

\* a journey ends with a failed step and a skipped step, its after hooks run
C14_Witness ==
    \E c \in Calls :
      /\ frame[c].pc = "dispose"
      /\ Len(frame[c].results) = 2
      /\ frame[c].results[1].status = "failed"
      /\ frame[c].results[2].status = "skipped"
      /\ AfterHookRuns(JourneyOf(frame[c])) = 1

----------------------------------------------------------------------------
(* C15 *)

\* C15: when a before hook of a journey threw, run is never rejected with
\* the hook's error; no step of the journey is run and no step:start or
\* step:end is emitted for it; runJourney returns failed with the hook's
\* error, after a journey:end that carries them and before its driver is
\* disposed once; and when run returns, the RunResult holds that result and
\* every journey the options select was executed to its journey:end.
C15_BeforeHookFailureAbortsJourneyOnly ==
    \A i \in 1..Len(raised) :
      raised[i].from = "before" =>
        LET j == raised[i].journey
            failed == [status |-> "failed", error |-> raised[i].error]
        IN
        /\ EventsOf({"step:start", "step:end"}, j) = <<>>
        /\ \A c \in Calls :
             LET f == frame[c] IN
             /\ f.pc = "threw" => f.thrown # raised[i].error
             /\ (InJourney(c) /\ JourneyOf(f) = j) =>
                  /\ f.pc \in {"output", "dispose"}
                  /\ f.results = <<>>
                  /\ f.jresult = failed
                  /\ drivers[f.driver].disposed = 0
             /\ (f.pc = "dispose" /\ JourneyOf(f) = j) =>
                  /\ events[Len(events)].type = "journey:end"
                  /\ events[Len(events)].journey = j
                  /\ events[Len(events)].status = "failed"
                  /\ events[Len(events)].error = raised[i].error
             /\ (f.pc \in {"loop", "afterAll", "done"} /\ j \in Range(f.executed)) =>
                  /\ ResultsOf(f.result, j) = {failed}
                  /\ \E d \in 1..Len(drivers) :
                       drivers[d].journey = j /\ drivers[d].disposed = 1
             /\ (f.pc = "done" /\ j \in Range(f.executed)) =>
                  /\ f.executed = Selected(f.list)
                  /\ \A n \in 1..Len(f.executed) :
                       Len(EventsOf({"journey:end"}, f.executed[n])) = 1

\* a run returned after the before hook of its first journey threw and its
\* second journey ran a step and succeeded
C15_Witness ==
    \E c \in Calls :
      /\ frame[c].pc = "done"
      /\ Len(frame[c].executed) = 2
      /\ RaisedBy({"before"}, frame[c].executed[1]) # <<>>
      /\ ResultsOf(frame[c].result, frame[c].executed[2]) = {NewJourneyResult}
      /\ EventsOf({"step:end"}, frame[c].executed[2]) # <<>>

----------------------------------------------------------------------------
(* C16 *)

\* C16: what a beforeAll or afterAll hook throws rejects the run call that
\* ran the hook.  After a beforeAll failure that run has executed no journey,
\* emitted nothing after its start event (no journey:start) and not run the
\* afterAll hooks; after an afterAll failure it has not emitted end.
C16_RunHookFailurePropagates ==
    /\ \A i \in 1..Len(raised) :
         raised[i].from \in {"beforeAll", "afterAll"} =>
           \E c \in Calls : frame[c].pc = "threw" /\ frame[c].thrown = raised[i].error
    /\ \A c \in Calls :
         LET f == frame[c] IN
         /\ f.thrown = "beforeAll hook error" =>
              /\ f.pc = "threw" /\ Latest(c)
              /\ f.executed = <<>>
              /\ Len(events) = StartAt
              /\ events[StartAt].type = "start"
              /\ HookRunsOf("afterAll") = <<>>
         /\ f.thrown = "afterAll hook error" =>
              /\ f.pc = "threw" /\ Latest(c)
              /\ Len(HookRunsOf("afterAll")) = 1
              /\ \A k \in StartAt..Len(events) : events[k].type # "end"

\* a run over two registered journeys was rejected by a beforeAll hook
C16_Witness ==
    \E c \in Calls :
      /\ frame[c].pc = "threw"
      /\ frame[c].thrown = "beforeAll hook error"
      /\ Len(journeys) = 2

----------------------------------------------------------------------------
(* C17 *)

\* C17: one start event is emitted per call that passes the guard; and when
\* the latest such call has returned, the events of its run begin with its
\* start event, which carries the number of registered journeys, and end
\* with its only end event; the beforeAll hooks ran once, right after start
\* and before any other event; the afterAll hooks ran once, after every other
\* event but end; and the engine is reset: active is false, the journey list
\* empty and currentJourney null.
C17_RunFraming ==
    /\ Len(SelectSeq(events, LAMBDA e : e.type = "start"))
         = Cardinality({c \in Calls : Passed(c)})
    /\ \A c \in Calls :
         (frame[c].pc = "done" /\ Latest(c)) =>
           /\ StartAt > 0
           /\ StartAt = 1 \/ events[StartAt - 1].type = "end"
           /\ events[StartAt] = [type |-> "start", numJourneys |-> Len(frame[c].list)]
           /\ Len(HookRunsOf("beforeAll")) = 1
           /\ HookRunsOf("beforeAll")[1].at = StartAt
           /\ Len(HookRunsOf("afterAll")) = 1
           /\ HookRunsOf("afterAll")[1].at = Len(events) - 1
           /\ events[Len(events)].type = "end"
           /\ \A k \in StartAt..(Len(events) - 1) : events[k].type # "end"
           /\ active = FALSE /\ journeys = <<>> /\ currentJourney = Null

\* a run over two journeys has returned
C17_Witness ==
    \E c \in Calls :
      /\ frame[c].pc = "done" /\ Latest(c)
      /\ Len(frame[c].executed) = 2
      /\ Len(EventsOf({"journey:end"}, frame[c].executed[2])) = 1

----------------------------------------------------------------------------
(* C18 *)

\* the URL of the first navigation request of a sequence of requests, or
\* Undefined when it has none
FirstNavigation(reqs) ==
    LET N == {k \in 1..Len(reqs) : reqs[k].nav}
    IN  IF N = {} THEN Undefined
        ELSE reqs[CHOOSE k \in N : \A m \in N : k <= m].url

\* C18: once runStep has returned, data.url is the URL of the first
\* navigation request among the requests the page emitted during the step,
\* whatever requests precede it, and stays so whatever the page emits later;
\* when the step saw no navigation request it is what driver.page.url()
\* returned.
C18_UrlIsFirstNavigation ==
    capture.pc = "returned" =>
      capture.url = IF FirstNavigation(capture.requests) # Undefined
                    THEN FirstNavigation(capture.requests)
                    ELSE capture.pageUrl

----------------------------------------------------------------------------
(* C19 *)

\* C19: when a call of run that passed the guard has terminated, by returning
\* or by being rejected, and no call is in flight, the engine is idle: active
\* is false, the journey list is empty and currentJourney is null, so the
\* guard does not refuse the next call.
C19_IdleAfterRun ==
    (/\ \E c \in Calls : frame[c].pc \in {"done", "threw"}
     /\ \A c \in Calls : ~InFlight(c)) =>
       /\ active = FALSE
       /\ journeys = <<>>
       /\ currentJourney = Null
       /\ ~Rejects

----------------------------------------------------------------------------
(* C20 *)

\* C20: a journey never has two steps with status failed; and when it ends
\* failed with no exception from its registration, its hooks or the
\* screenshot of a step, the error of its JourneyResult and of its
\* journey:end is the error of its one failed step.
C20_AtMostOneFailedStep ==
    \A c \in Calls :
      InJourney(c) =>
        LET f == frame[c]
            j == JourneyOf(f)
            ends == EventsOf({"step:end"}, j)
            failed == {k \in 1..Len(ends) : ends[k].status = "failed"}
        IN
        /\ Cardinality(failed) <= 1
        /\ (/\ f.pc = "dispose"
            /\ f.jresult.status = "failed"
            /\ RaisedBy({"callback", "before", "after", "screenshot"}, j) = <<>>) =>
             /\ failed # {}
             /\ \A k \in failed :
                  /\ f.jresult.error = ends[k].error
                  /\ events[Len(events)].error = ends[k].error

====
